---- MODULE Spec2Model ----
(***************************************************************************)
(* Model of the binary_prefix crate (src/src/lib.rs): pad, find_seq,       *)
(* shared_prefix and range_prefix over slices of booleans.  A bit sequence *)
(* is a TLA+ sequence of BOOLEAN, most significant bit first.  Rust's      *)
(* 0-based half-open slice s[a..b] is SubSeq(s, a+1, b) and panics when    *)
(* a > b or b > s.len().                                                   *)
(***************************************************************************)
EXTENDS Integers, Sequences, FiniteSets, TLC

\* Longest bit sequence passed to a function.
MaxLen == 4
\* Largest `size` passed to pad.
MaxSize == 5

VARIABLES pc, arg_start, arg_end, arg_size, arg_initial, out, count, rp

vars == <<pc, arg_start, arg_end, arg_size, arg_initial, out, count, rp>>

\* All bit sequences of length n, and of length at most MaxLen.
BitSeqsOfLen(n) == [1..n -> BOOLEAN]
BitSeqs == UNION {BitSeqsOfLen(n) : n \in 0..MaxLen}

(***************************************************************************)
(* Slices                                                                  *)
(***************************************************************************)
\* &s[from..to] is in bounds
SliceOk(s, from, to) == from <= to /\ to <= Len(s)
\* &s[from..to]
Slice(s, from, to) == SubSeq(s, from + 1, to)

(***************************************************************************)
(* pad                                                                     *)
(***************************************************************************)
\* for _ in input_len..size { out.push(false) }
RECURSIVE pad_padding(_, _, _)
pad_padding(i, size, acc) ==
    IF i < size THEN pad_padding(i + 1, size, Append(acc, FALSE)) ELSE acc

\* for item in input.iter() { out.push(item.clone()) }
RECURSIVE pad_contents(_, _, _)
pad_contents(input, i, acc) ==
    IF i < Len(input) THEN pad_contents(input, i + 1, Append(acc, input[i + 1]))
    ELSE acc

\* mutant: pads `size` zeros whatever the input length (for _ in 0..size)
pad_from_zero(size, input) ==
    pad_contents(input, 0, pad_padding(0, size, <<>>))

pad(size, input) ==
    LET input_len == Len(input)
    IN  pad_contents(input, 0, pad_padding(input_len, size, <<>>))

(***************************************************************************)
(* find_seq                                                                *)
(***************************************************************************)
\* mutant: expected_value never changes (counts a run of `initial`)
RECURSIVE find_seq_noflip_loop(_, _, _, _)
find_seq_noflip_loop(initial, collection, i, final_count) ==
    IF i >= Len(collection) THEN final_count
    ELSE IF collection[i + 1] = initial
         THEN find_seq_noflip_loop(initial, collection, i + 1, final_count + 1)
         ELSE final_count

\* mutant: expected_value is toggled after every entry (strict alternation)
RECURSIVE find_seq_toggle_loop(_, _, _, _)
find_seq_toggle_loop(expected_value, collection, i, final_count) ==
    IF i >= Len(collection) THEN final_count
    ELSE IF collection[i + 1] = expected_value
         THEN find_seq_toggle_loop(~expected_value, collection, i + 1, final_count + 1)
         ELSE final_count

\* mutant: the loop never counts
find_seq_zero(initial, collection) == 0

find_seq_noflip(initial, collection) == find_seq_noflip_loop(initial, collection, 0, 0)

find_seq_toggle(initial, collection) == find_seq_toggle_loop(initial, collection, 0, 0)

\* the body of `for entry in collection`, iteration i (0-based)
RECURSIVE find_seq_loop(_, _, _, _, _)
find_seq_loop(initial, collection, i, final_count, expected_value) ==
    IF i >= Len(collection) THEN final_count
    ELSE IF collection[i + 1] = expected_value
         THEN find_seq_loop(initial, collection, i + 1, final_count + 1,
                            IF expected_value = initial THEN ~initial
                            ELSE expected_value)
         ELSE final_count

find_seq(initial, collection) ==
    find_seq_loop(initial, collection, 0, 0, initial)

(***************************************************************************)
(* shared_prefix                                                           *)
(***************************************************************************)
\* for pair in start.iter().zip(end): the zip ends with the shorter slice
RECURSIVE shared_prefix_loop(_, _, _)
shared_prefix_loop(start, end, slice_end) ==
    IF slice_end < Len(start) /\ slice_end < Len(end)
    THEN IF start[slice_end + 1] = end[slice_end + 1]
         THEN shared_prefix_loop(start, end, slice_end + 1)
         ELSE slice_end
    ELSE slice_end

\* mutant: no break, every equal pair is counted
RECURSIVE shared_prefix_nobreak_loop(_, _, _, _)
shared_prefix_nobreak_loop(start, end, i, slice_end) ==
    IF i < Len(start) /\ i < Len(end)
    THEN shared_prefix_nobreak_loop(start, end, i + 1,
             IF start[i + 1] = end[i + 1] THEN slice_end + 1 ELSE slice_end)
    ELSE slice_end

shared_prefix_nobreak(start, end) ==
    Slice(start, 0, shared_prefix_nobreak_loop(start, end, 0, 0))

\* mutant: the returned slice is one element short
shared_prefix_short(start, end) ==
    LET slice_end == shared_prefix_loop(start, end, 0)
    IN  Slice(start, 0, IF slice_end > 0 THEN slice_end - 1 ELSE 0)

\* mutant: an exhausted `end` is read as zeros instead of ending the loop
RECURSIVE shared_prefix_nozip_loop(_, _, _)
shared_prefix_nozip_loop(start, end, slice_end) ==
    IF slice_end < Len(start)
    THEN IF start[slice_end + 1] =
              (IF slice_end < Len(end) THEN end[slice_end + 1] ELSE FALSE)
         THEN shared_prefix_nozip_loop(start, end, slice_end + 1)
         ELSE slice_end
    ELSE slice_end

shared_prefix_nozip(start, end) ==
    Slice(start, 0, shared_prefix_nozip_loop(start, end, 0))

shared_prefix(start, end) ==
    LET slice_end == shared_prefix_loop(start, end, 0)
    IN  Slice(start, 0, slice_end)

(***************************************************************************)
(* range_prefix                                                            *)
(***************************************************************************)
\* The outcome of a call: a pair of slices, or the panic of a slice index
\* out of range.  The locals are recorded as far as they were computed.
Returned(bl, ss, es, sp, ep) ==
    [status |-> "ok", base_len |-> bl, start_special |-> ss,
     end_special |-> es, start_prefix |-> sp, end_prefix |-> ep]
Panicked(bl) ==
    [status |-> "panic", base_len |-> bl, start_special |-> 0,
     end_special |-> 0, start_prefix |-> <<>>, end_prefix |-> <<>>]
NoCall ==
    [status |-> "none", base_len |-> 0, start_special |-> 0,
     end_special |-> 0, start_prefix |-> <<>>, end_prefix |-> <<>>]

\* mutant: segment_len taken from start instead of end
range_prefix_startlen(start, end) ==
    LET segment_len == Len(start)
        base == shared_prefix(start, end)
        base_len == Len(base)
    IN  IF ~SliceOk(start, base_len, segment_len) THEN Panicked(base_len)
        ELSE IF ~SliceOk(end, base_len, segment_len) THEN Panicked(base_len)
        ELSE
        LET start_special == find_seq(FALSE, Slice(start, base_len, segment_len))
            end_special == find_seq(TRUE, Slice(end, base_len, segment_len))
            start_prefix_len == base_len + start_special
            end_prefix_len == base_len + end_special
        IN  IF ~SliceOk(start, 0, start_prefix_len) THEN Panicked(base_len)
            ELSE IF ~SliceOk(end, 0, end_prefix_len) THEN Panicked(base_len)
            ELSE Returned(base_len, start_special, end_special,
                          Slice(start, 0, start_prefix_len),
                          Slice(end, 0, end_prefix_len))

\* mutant: base_len is not added to the prefix lengths
range_prefix_nobase(start, end) ==
    LET segment_len == Len(end)
        base == shared_prefix(start, end)
        base_len == Len(base)
    IN  IF ~SliceOk(start, base_len, segment_len) THEN Panicked(base_len)
        ELSE IF ~SliceOk(end, base_len, segment_len) THEN Panicked(base_len)
        ELSE
        LET start_special == find_seq(FALSE, Slice(start, base_len, segment_len))
            end_special == find_seq(TRUE, Slice(end, base_len, segment_len))
            start_prefix_len == start_special
            end_prefix_len == end_special
        IN  IF ~SliceOk(start, 0, start_prefix_len) THEN Panicked(base_len)
            ELSE IF ~SliceOk(end, 0, end_prefix_len) THEN Panicked(base_len)
            ELSE Returned(base_len, start_special, end_special,
                          Slice(start, 0, start_prefix_len),
                          Slice(end, 0, end_prefix_len))

range_prefix(start, end) ==
    LET segment_len == Len(end)
        base == shared_prefix(start, end)
        base_len == Len(base)
    IN  IF ~SliceOk(start, base_len, segment_len) THEN Panicked(base_len)
        ELSE IF ~SliceOk(end, base_len, segment_len) THEN Panicked(base_len)
        ELSE
        LET start_special == find_seq(FALSE, Slice(start, base_len, segment_len))
            end_special == find_seq(TRUE, Slice(end, base_len, segment_len))
            start_prefix_len == base_len + start_special
            end_prefix_len == base_len + end_special
        IN  IF ~SliceOk(start, 0, start_prefix_len) THEN Panicked(base_len)
            ELSE IF ~SliceOk(end, 0, end_prefix_len) THEN Panicked(base_len)
            ELSE Returned(base_len, start_special, end_special,
                          Slice(start, 0, start_prefix_len),
                          Slice(end, 0, end_prefix_len))

(***************************************************************************)
(* The state machine: a caller holds its arguments and makes one call.     *)
(***************************************************************************)
Init ==
    /\ pc = "ready"
    /\ arg_start \in BitSeqs
    /\ arg_end \in BitSeqs
    /\ arg_size \in 0..MaxSize
    /\ arg_initial \in BOOLEAN
    /\ out = <<>>
    /\ count = 0
    /\ rp = NoCall

\* pad(arg_size, &arg_start)
CallPad ==
    /\ pc = "ready"
    /\ out' = pad(arg_size, arg_start)
    /\ pc' = "pad"
    /\ UNCHANGED <<arg_start, arg_end, arg_size, arg_initial, count, rp>>

\* find_seq(arg_initial, &arg_start)
CallFindSeq ==
    /\ pc = "ready"
    /\ count' = find_seq(arg_initial, arg_start)
    /\ pc' = "find_seq"
    /\ UNCHANGED <<arg_start, arg_end, arg_size, arg_initial, out, rp>>

\* shared_prefix(&arg_start, &arg_end)
CallSharedPrefix ==
    /\ pc = "ready"
    /\ out' = shared_prefix(arg_start, arg_end)
    /\ pc' = "shared_prefix"
    /\ UNCHANGED <<arg_start, arg_end, arg_size, arg_initial, count, rp>>

\* range_prefix(&arg_start, &arg_end)
CallRangePrefix ==
    /\ pc = "ready"
    /\ rp' = range_prefix(arg_start, arg_end)
    /\ pc' = "range_prefix"
    /\ UNCHANGED <<arg_start, arg_end, arg_size, arg_initial, out, count>>

Next == CallPad \/ CallFindSeq \/ CallSharedPrefix \/ CallRangePrefix

Spec == Init /\ [][Next]_vars

(***************************************************************************)
(* Vocabulary of the properties                                            *)
(***************************************************************************)
\* value of a bit sequence read as a big-endian binary number
RECURSIVE BinVal(_)
BinVal(s) ==
    IF Len(s) = 0 THEN 0
    ELSE 2 * BinVal(SubSeq(s, 1, Len(s) - 1)) + (IF s[Len(s)] THEN 1 ELSE 0)

\* p is a leading sub-sequence of s
IsPrefix(p, s) ==
    /\ Len(p) <= Len(s)
    /\ \A i \in 1..Len(p) : p[i] = s[i]

Min(x, y) == IF x <= y THEN x ELSE y
Max(x, y) == IF x >= y THEN x ELSE y

\* the keys of the same length as s
KeysLike(s) == BitSeqsOfLen(Len(s))

\* a call of range_prefix on a well-formed range has been made
RangeCall ==
    /\ pc = "range_prefix"
    /\ Len(arg_start) = Len(arg_end)
    /\ BinVal(arg_start) <= BinVal(arg_end)

\* k lies in the range [arg_start, arg_end]
InRange(k) ==
    /\ BinVal(arg_start) <= BinVal(k)
    /\ BinVal(k) <= BinVal(arg_end)

(***************************************************************************)
(* C1: for equal-length start <= end, every key k of that length with      *)
(* start <= k <= end begins with the returned start prefix or with the     *)
(* returned end prefix: the two prefix queries miss no key of the range.   *)
(***************************************************************************)
C1_RangeCovered ==
    RangeCall =>
        /\ rp.status = "ok"
        /\ \A k \in KeysLike(arg_start) :
              InRange(k) =>
                  IsPrefix(rp.start_prefix, k) \/ IsPrefix(rp.end_prefix, k)

\* a proper range where both prefixes are shorter than the keys and a key
\* strictly inside the range exists
C1_Witness ==
    /\ RangeCall
    /\ rp.status = "ok"
    /\ Len(rp.start_prefix) < Len(arg_start)
    /\ Len(rp.end_prefix) < Len(arg_end)
    /\ rp.start_special >= 2
    /\ \E k \in KeysLike(arg_start) :
          BinVal(arg_start) < BinVal(k) /\ BinVal(k) < BinVal(arg_end)

(***************************************************************************)
(* C2 as stated: for equal-length start <= end, every key that begins with *)
(* the returned start prefix has value >= start and every key that begins  *)
(* with the returned end prefix has value <= end (nothing outside the      *)
(* range is matched).                                                      *)
(***************************************************************************)
C2_ExactCover ==
    RangeCall =>
        \A k \in KeysLike(arg_start) :
            /\ IsPrefix(rp.start_prefix, k) => BinVal(k) >= BinVal(arg_start)
            /\ IsPrefix(rp.end_prefix, k) => BinVal(k) <= BinVal(arg_end)

\* the bits of s after its first n bits are all equal to b
RestAll(s, n, b) == \A i \in (n + 1)..Len(s) : s[i] = b

(***************************************************************************)
(* C2 amended: for equal-length start <= end, every key that begins with   *)
(* the returned start prefix has value <= end, and value >= start when the *)
(* bits of start after the returned start prefix are all 0; every key that *)
(* begins with the returned end prefix has value >= start, and value       *)
(* <= end when the bits of end after the returned end prefix are all 1.    *)
(***************************************************************************)
C2_BoundedCover ==
    RangeCall =>
        /\ rp.status = "ok"
        /\ \A k \in KeysLike(arg_start) :
              /\ IsPrefix(rp.start_prefix, k) =>
                    /\ BinVal(k) <= BinVal(arg_end)
                    /\ RestAll(arg_start, Len(rp.start_prefix), FALSE)
                           => BinVal(k) >= BinVal(arg_start)
              /\ IsPrefix(rp.end_prefix, k) =>
                    /\ BinVal(k) >= BinVal(arg_start)
                    /\ RestAll(arg_end, Len(rp.end_prefix), TRUE)
                           => BinVal(k) <= BinVal(arg_end)

\* a range whose start prefix is extended past the shared prefix and whose
\* end prefix stops before the end of the key
C2_Witness ==
    /\ RangeCall
    /\ rp.status = "ok"
    /\ BinVal(arg_start) < BinVal(arg_end)
    /\ rp.base_len >= 1
    /\ rp.start_special >= 1
    /\ RestAll(arg_start, Len(rp.start_prefix), FALSE)
    /\ Len(rp.start_prefix) < Len(arg_start)
    /\ ~RestAll(arg_end, Len(rp.end_prefix), TRUE)

(***************************************************************************)
(* C3 as stated: whenever start is shorter than end, range_prefix reports  *)
(* an InvalidRange error value (and does not panic).                       *)
(***************************************************************************)
C3_InvalidRange ==
    (pc = "range_prefix" /\ Len(arg_start) < Len(arg_end)) =>
        /\ rp.status = "InvalidRange"
        /\ rp.start_prefix = <<>>
        /\ rp.end_prefix = <<>>

(***************************************************************************)
(* C4: whenever start is at least as long as end, range_prefix returns a   *)
(* pair and every slice index is in bounds: base_len <= end.len(),         *)
(* base_len + start_special <= start.len() and                             *)
(* base_len + end_special <= end.len().                                    *)
(***************************************************************************)
C4_NoFailure ==
    (pc = "range_prefix" /\ Len(arg_start) >= Len(arg_end)) =>
        /\ rp.status = "ok"
        /\ rp.base_len <= Len(arg_end)
        /\ rp.base_len + rp.start_special <= Len(arg_start)
        /\ rp.base_len + rp.end_special <= Len(arg_end)

\* start strictly longer than end, both extended past a non-empty shared prefix
C4_Witness ==
    /\ pc = "range_prefix"
    /\ Len(arg_start) > Len(arg_end)
    /\ rp.status = "ok"
    /\ rp.base_len >= 1
    /\ rp.start_special >= 1
    /\ rp.end_special >= 1

(***************************************************************************)
(* C5: shared_prefix(a, b) is a[0..n] for the largest n <= min(a.len(),    *)
(* b.len()) with a[i] = b[i] for every i < n: either n = min(a.len(),      *)
(* b.len()) or a[n] # b[n]; it is empty when an input is empty or the      *)
(* inputs differ at position 0.                                            *)
(***************************************************************************)
C5_SharedPrefix ==
    pc = "shared_prefix" =>
        LET n == Len(out)
            m == Min(Len(arg_start), Len(arg_end))
        IN  /\ n <= m
            /\ out = SubSeq(arg_start, 1, n)
            /\ \A i \in 1..n : arg_start[i] = arg_end[i]
            /\ n = m \/ arg_start[n + 1] # arg_end[n + 1]
            /\ (m = 0 \/ arg_start[1] # arg_end[1]) => out = <<>>

\* the inputs agree, then differ, then agree again
C5_Witness ==
    /\ pc = "shared_prefix"
    /\ Len(out) >= 1
    /\ Len(out) + 2 <= Min(Len(arg_start), Len(arg_end))
    /\ arg_start[Len(out) + 2] = arg_end[Len(out) + 2]

(***************************************************************************)
(* C6: pad(size, input) has length max(size, input.len()) and is           *)
(* max(0, size - input.len()) false bits followed by the bits of input in  *)
(* order; when input.len() >= size it equals input.                        *)
(***************************************************************************)
C6_Pad ==
    pc = "pad" =>
        LET zeros == Max(0, arg_size - Len(arg_start))
        IN  /\ Len(out) = Max(arg_size, Len(arg_start))
            /\ \A i \in 1..zeros : out[i] = FALSE
            /\ \A i \in 1..Len(arg_start) : out[zeros + i] = arg_start[i]
            /\ Len(arg_start) >= arg_size => out = arg_start

\* a non-empty input that is really padded
C6_Witness ==
    /\ pc = "pad"
    /\ Len(arg_start) >= 2
    /\ arg_size > Len(arg_start)
    /\ arg_start[1] = TRUE
    /\ Len(out) = arg_size

(***************************************************************************)
(* C7: range_prefix(x, x) returns (x, x).                                  *)
(***************************************************************************)
C7_SameKey ==
    (pc = "range_prefix" /\ arg_start = arg_end) =>
        /\ rp.status = "ok"
        /\ rp.start_prefix = arg_start
        /\ rp.end_prefix = arg_end

\* a call with twice the same non-empty key
C7_Witness ==
    /\ pc = "range_prefix"
    /\ arg_start = arg_end
    /\ Len(arg_start) >= 2
    /\ rp.status = "ok"
    /\ Len(rp.start_prefix) = Len(arg_start)

(***************************************************************************)
(* C8: when range_prefix returns a pair, the start prefix is a leading     *)
(* sub-range of start, the end prefix a leading sub-range of end, both are *)
(* at least as long as shared_prefix(start, end) and both begin with it.   *)
(***************************************************************************)
C8_Containment ==
    (pc = "range_prefix" /\ rp.status = "ok") =>
        LET shared == shared_prefix(arg_start, arg_end)
        IN  /\ Len(rp.start_prefix) >= Len(shared)
            /\ Len(rp.end_prefix) >= Len(shared)
            /\ IsPrefix(rp.start_prefix, arg_start)
            /\ IsPrefix(rp.end_prefix, arg_end)
            /\ IsPrefix(shared, rp.start_prefix)
            /\ IsPrefix(shared, rp.end_prefix)

\* a returned pair with a non-empty shared prefix and different prefixes
C8_Witness ==
    /\ pc = "range_prefix"
    /\ rp.status = "ok"
    /\ rp.base_len >= 1
    /\ rp.start_prefix # rp.end_prefix
    /\ Len(rp.start_prefix) > rp.base_len

(***************************************************************************)
(* C9: shared_prefix(a, b).len() = shared_prefix(b, a).len().              *)
(***************************************************************************)
C9_Symmetry ==
    pc = "shared_prefix" =>
        Len(out) = Len(shared_prefix(arg_end, arg_start))

\* inputs of different lengths with a common part
C9_Witness ==
    /\ pc = "shared_prefix"
    /\ Len(arg_start) # Len(arg_end)
    /\ Len(out) >= 1
    /\ arg_start # arg_end

\* s[i] (1-based) is what strict alternation from b expects there
Alternates(s, i, b) == s[i] = (IF i % 2 = 1 THEN b ELSE ~b)

\* length of the longest leading run of s that strictly alternates from b
AlternatingRun(b, s) ==
    CHOOSE n \in 0..Len(s) :
        /\ \A i \in 1..n : Alternates(s, i, b)
        /\ n = Len(s) \/ ~Alternates(s, n + 1, b)

\* s[i] (1-based) is b at position 1 and ~b at every later position
StepsOnce(s, i, b) == s[i] = (IF i = 1 THEN b ELSE ~b)

\* length of the longest leading run of s made of b once, then ~b repeated
SingleStepRun(b, s) ==
    CHOOSE n \in 0..Len(s) :
        /\ \A i \in 1..n : StepsOnce(s, i, b)
        /\ n = Len(s) \/ ~StepsOnce(s, n + 1, b)

(***************************************************************************)
(* C10 as stated: find_seq(initial_bit, sequence) is the length of the     *)
(* longest leading run of sequence that strictly alternates starting with  *)
(* initial_bit.                                                            *)
(***************************************************************************)
C10_Alternating ==
    pc = "find_seq" => count = AlternatingRun(arg_initial, arg_start)

(***************************************************************************)
(* C10 amended: find_seq(initial_bit, sequence) is the length of the       *)
(* longest leading run of sequence that has initial_bit at position 0 and  *)
(* !initial_bit at every later position (the expected bit changes once and *)
(* never changes back); counting stops at the first position that breaks   *)
(* this pattern or at the end of sequence, and the result is 0 when        *)
(* sequence is empty or position 0 differs from initial_bit.               *)
(***************************************************************************)
C10_SingleStep ==
    pc = "find_seq" =>
        /\ count = SingleStepRun(arg_initial, arg_start)
        /\ (Len(arg_start) = 0 \/ arg_start[1] # arg_initial) => count = 0

\* a run that goes on after the expected bit has changed, then is broken
C10_Witness ==
    /\ pc = "find_seq"
    /\ count >= 3
    /\ count < Len(arg_start)

====
